---------------------------- MODULE Spec2Model ----------------------------
(***************************************************************************)
(* Model of scraper_py.py: a run requests PAGES_TO_SCRAPE listing pages,   *)
(* extracts one record per paper card, stamps the batch, looks up the      *)
(* metadata of every record and appends the frame to a SQLite table.       *)
(*                                                                         *)
(* Text is a sequence of tokens.  In a link target the token "/paper/"     *)
(* stands for that seven-character substring and the other tokens are      *)
(* single letters, so no "/paper/" arises across a token boundary.         *)
(***************************************************************************)
EXTENDS Integers, Sequences, FiniteSets, TLC

\* ------------------------------------------------------------- bounds ---
\* The source scrapes 10 pages (scraper_py.py:11); the model scales it down.
PAGES_TO_SCRAPE == 2
\* Longest link target, in tokens.
MaxHrefLen == 3
\* Most cards on one page of the extractor specification.
MaxCards == 2
\* Most cards on one listing page of a whole run.
MaxListing == 1
\* Number of process starts.
MaxRuns == 2
\* Most rows the table and the batch being collected hold together.
MaxRows == 3

\* ------------------------------------------------------------- values ---
\* Python's None and a present text value, in one shape.
None == [present |-> FALSE, text |-> <<>>]

Str(t) == [present |-> TRUE, text |-> t]

\* Truth value of `if x:` for None or a string.
Truthy(x) == x.present /\ x.text # <<>>

RECURSIVE lstrip(_)
lstrip(t) == IF t # <<>> /\ Head(t) = " " THEN lstrip(Tail(t)) ELSE t

RECURSIVE rstrip(_)
rstrip(t) ==
    IF t # <<>> /\ t[Len(t)] = " " THEN rstrip(SubSeq(t, 1, Len(t) - 1)) ELSE t

\* element.get_text(strip=True) of an element holding one text node.
get_text(t) == rstrip(lstrip(t))

\* str.startswith("/paper/")
startswith_paper(href) == href # <<>> /\ Head(href) = "/paper/"

\* Index of the last "/paper/" token of href, 0 when there is none.
RECURSIVE last_paper(_)
last_paper(href) ==
    IF href = <<>> THEN 0
    ELSE IF href[Len(href)] = "/paper/" THEN Len(href)
    ELSE last_paper(SubSeq(href, 1, Len(href) - 1))

\* href.split("/paper/")[-1]: what follows the last "/paper/".
split_paper_last(href) == SubSeq(href, last_paper(href) + 1, Len(href))

\* ------------------------------------------------------------- markup ---
HrefTokens == {"/paper/", "a", "b"}

Hrefs == UNION {[1..n -> HrefTokens] : n \in 0..MaxHrefLen}

\* A card's image column: absent, without a hyperlink, or with a first
\* hyperlink whose target is href.
NoImgCol == [col |-> FALSE, link |-> FALSE, href |-> <<>>]

NoLink == [col |-> TRUE, link |-> FALSE, href |-> <<>>]

Link(h) == [col |-> TRUE, link |-> TRUE, href |-> h]

ImgCols == {NoImgCol, NoLink} \cup {Link(h) : h \in Hrefs}

\* The stars-accumulated element and the badge element: absent or raw text.
SprElems == {None, Str(<<" ", "7">>)}

BadgeElems == {None, Str(<<"9", " ">>)}

\* chrome: the card lies inside a head, header, footer, nav or svg element.
Cards == [chrome : BOOLEAN, img : ImgCols, spr : SprElems, badge : BadgeElems]

PagesOf(C, n) == UNION {[1..k -> C] : k \in 0..n}

\* ---------------------------------------------------------- extractor ---
\* decompose() of the structural elements, then find_all of the cards.
RECURSIVE find_cards(_)
find_cards(markup) ==
    IF markup = <<>> THEN <<>>
    ELSE IF Head(markup).chrome THEN find_cards(Tail(markup))
    ELSE <<Head(markup)>> \o find_cards(Tail(markup))

\* paper_id of one card.
card_paper_id(card) ==
    IF card.img.col /\ card.img.link /\ startswith_paper(card.img.href)
    THEN Str(split_paper_last(card.img.href))
    ELSE None

card_text(elem) == IF elem.present THEN Str(get_text(elem.text)) ELSE None

\* Mutant: the guard tests `paper_id is not None`.
emits_not_none(paper_id) == paper_id.present

\* `if paper_id:` guarding records.append.
emits(paper_id) == Truthy(paper_id)

card_records(card) ==
    LET paper_id == card_paper_id(card)
    IN  IF emits(paper_id)
        THEN <<[id |-> paper_id.text, spr |-> card_text(card.spr),
                stars |-> card_text(card.badge)]>>
        ELSE <<>>

RECURSIVE extract_cards(_)
extract_cards(cards) ==
    IF cards = <<>> THEN <<>>
    ELSE card_records(Head(cards)) \o extract_cards(Tail(cards))

\* The body of the page loop between raise_for_status and the sleep.
extract_page(markup) == extract_cards(find_cards(markup))


\* -------------------------------------------------------------- frame ---
metadata_cols == {"title", "arxiv_id", "url_pdf", "abstract", "published"}

\* pd.DataFrame(records): the columns are the keys of the dicts, none for [].
DataFrame(recs) ==
    [cols |-> IF recs = <<>> THEN {} ELSE {"id", "spr", "stars"},
     rows |-> recs]

\* df[col] = v for a scalar v: the column is added to the frame, every row
\* gets v.
set_column(frame, col, v) ==
    [cols |-> frame.cols \cup {col},
     rows |-> [i \in 1..Len(frame.rows) |->
                 [c \in DOMAIN frame.rows[i] \cup {col} |->
                     IF c = col THEN v ELSE frame.rows[i][c]]]]

RECURSIVE set_columns(_, _, _)
set_columns(frame, cols, v) ==
    IF cols = {} THEN frame
    ELSE LET c == CHOOSE x \in cols : TRUE
         IN  set_columns(set_column(frame, c, v), cols \ {c}, v)

NoFrame == [cols |-> {}, rows |-> <<>>]

\* ----------------------------------------------------------- provider ---
\* The field col of the n-th answer of client.paper_get, asked for paper_id.
response_field(paper_id, n, col) ==
    [present |-> TRUE, for |-> paper_id, call |-> n, col |-> col]

\* The order in which get_paper_metadata reads the fields of paper_obj.
FieldOrder == <<"title", "arxiv_id", "url_pdf", "abstract", "published">>

\* get_paper_metadata(paper_id) on the n-th call.  failAt = 0: paper_get
\* raises; failAt = k in 1..5: reading the k-th field raises; failAt = 6: the
\* dict is returned.  data holds the fields read so far.
get_paper_metadata(paper_id, n, failAt) ==
    [raised |-> failAt <= 5,
     data |-> [c \in {FieldOrder[k] : k \in 1..(IF failAt = 0 THEN 0 ELSE failAt - 1)}
                 |-> response_field(paper_id, n, c)]]

\* Mutant: the write goes to the first row whatever the index.
at_first(rows, i, col, v) == [rows EXCEPT ![1][col] = v]

\* df.at[idx, col] = v
at(rows, i, col, v) == [rows EXCEPT ![i][col] = v]

RECURSIVE at_all(_, _, _, _)
at_all(rows, i, data, cols) ==
    IF cols = {} THEN rows
    ELSE LET c == CHOOSE x \in cols : TRUE
         IN  at_all(at(rows, i, c, data[c]), i, data, cols \ {c})

\* Mutant: each field is written to the frame as soon as it is read.
enrich_rows_as_read(rows, i, result) ==
    at_all(rows, i, result.data, DOMAIN result.data)

\* The try block of the enrichment loop: the merge runs only when
\* get_paper_metadata returned.
enrich_rows(rows, i, result) ==
    IF result.raised THEN rows ELSE at_all(rows, i, result.data, metadata_cols)

\* Mutant: no except clause, the error ends the run.
after_lookup_uncaught(raised, i, n) ==
    IF raised THEN "aborted" ELSE IF i = n THEN "save" ELSE "enrich"

\* except Exception: the error is printed and the loop goes on.
after_lookup(raised, i, n) == IF i = n THEN "save" ELSE "enrich"

\* -------------------------------------------------------------- store ---
NoTable == [exists |-> FALSE, cols |-> {}, rows |-> <<>>]

\* df.to_sql(table_name, engine, if_exists='append', index=False): an absent
\* table is created with the frame's columns; an empty frame inserts nothing;
\* an INSERT naming a column the table lacks is rejected and rolled back.
to_sql(frame, t) ==
    LET t1 == IF t.exists THEN t
              ELSE [exists |-> TRUE, cols |-> frame.cols, rows |-> <<>>]
    IN  IF Len(frame.rows) = 0 THEN [raised |-> FALSE, table |-> t1]
        ELSE IF frame.cols \subseteq t1.cols
        THEN [raised |-> FALSE,
              table |-> [t1 EXCEPT !.rows = t1.rows \o frame.rows]]
        ELSE [raised |-> TRUE, table |-> t1]

save_to_sqlite(frame, t) == to_sql(frame, t)

\* ------------------------------------------------------------ fetcher ---
Outcomes == {"ok", "client_error", "server_error", "network_error"}

\* requests.get raises on a network error.
get_raises(outcome) == outcome = "network_error"

\* Mutant: the status of the answer is not looked at.
raise_for_status_skipped(outcome) == FALSE

\* response.raise_for_status()
raise_for_status(outcome) == outcome \in {"client_error", "server_error"}

\* The argument of time.sleep.
PolitenessDelay == 1

\* Mutant: no sleep between pages.
sleep_skipped(now) == now

\* time.sleep(1): the clock when the call returns, entered at now.
sleep(now) == now + PolitenessDelay

\* Cards of the listing pages of a run: two papers, and one card of each
\* shape the extractor skips.
ListingCards ==
    {[chrome |-> FALSE, img |-> Link(<<"/paper/", "a">>),
      spr |-> Str(<<" ", "7">>), badge |-> Str(<<"9", " ">>)],
     [chrome |-> FALSE, img |-> Link(<<"/paper/", "b">>),
      spr |-> None, badge |-> Str(<<"9", " ">>)],
     [chrome |-> FALSE, img |-> NoImgCol,
      spr |-> Str(<<" ", "7">>), badge |-> None],
     [chrome |-> FALSE, img |-> NoLink, spr |-> None, badge |-> None],
     [chrome |-> FALSE, img |-> Link(<<"a", "/paper/">>),
      spr |-> None, badge |-> None],
     [chrome |-> FALSE, img |-> Link(<<"/paper/">>),
      spr |-> None, badge |-> None],
     [chrome |-> TRUE, img |-> Link(<<"/paper/", "a">>),
      spr |-> None, badge |-> None]}

ListingPages == PagesOf(ListingCards, MaxListing)

\* -------------------------------------------------------------- state ---
VARIABLES
    run,          \* number of this process start
    pc,           \* position of the run
    page,         \* loop variable of get_current_trending
    response,     \* markup of the last page received
    records,      \* the list get_current_trending appends to
    df,           \* the frame
    idx,          \* loop variable of the enrichment loop
    table,        \* the table trending_papers of the database file
    clock,        \* wall clock, in the time units of the politeness delay
    pageOf,       \* history: the page each record was extracted from
    requested,    \* history: page and time of each listing request of the run
    failedPage,   \* history: the page whose request failed, 0 when none
    clockReads,   \* history: the clock reads of the run
    lookups,      \* history: id and outcome of each metadata lookup of the
                  \* run; partial: it raised after reading some field
    tableAtStart  \* history: the table when the run started

vars == <<run, pc, page, response, records, df, idx, table, clock, pageOf,
          requested, failedPage, clockReads, lookups, tableAtStart>>

Init ==
    /\ run = 1
    /\ pc = "request"
    /\ page = 1
    /\ response = <<>>
    /\ records = <<>>
    /\ df = NoFrame
    /\ idx = 0
    /\ table = NoTable
    /\ clock = 0
    /\ pageOf = <<>>
    /\ requested = <<>>
    /\ failedPage = 0
    /\ clockReads = <<>>
    /\ lookups = <<>>
    /\ tableAtStart = NoTable

\* requests.get(url) and response.raise_for_status() for the current page.
\* An error answer carries no cards.
Request ==
    /\ pc = "request"
    /\ \E outcome \in Outcomes :
       \E markup \in (IF outcome = "ok" THEN ListingPages ELSE {<<>>}) :
          /\ Len(table.rows) + Len(records) + Len(extract_page(markup))
                <= MaxRows
          /\ requested' = Append(requested, [page |-> page, at |-> clock])
          /\ failedPage' = IF outcome = "ok" THEN failedPage ELSE page
          /\ IF get_raises(outcome) \/ raise_for_status(outcome)
             THEN /\ pc' = "aborted"
                  /\ response' = <<>>
                  /\ records' = <<>>
             ELSE /\ pc' = "parse"
                  /\ response' = markup
                  /\ UNCHANGED records
          /\ UNCHANGED pageOf
    /\ UNCHANGED <<run, page, df, idx, table, clock, clockReads, lookups,
                   tableAtStart>>

\* The card loop over the page just received.
Parse ==
    /\ pc = "parse"
    /\ LET new == extract_page(response)
       IN  /\ records' = records \o new
           /\ pageOf' = pageOf \o [i \in 1..Len(new) |-> page]
    /\ pc' = "sleep"
    /\ UNCHANGED <<run, page, response, df, idx, table, clock, requested,
                   failedPage, clockReads, lookups, tableAtStart>>

\* time.sleep(1), then the next iteration of the page loop or its end.  The
\* markup of the page is not read again.
Sleep ==
    /\ pc = "sleep"
    /\ clock' = sleep(clock)
    /\ page' = page + 1
    /\ response' = <<>>
    /\ pc' = IF page = PAGES_TO_SCRAPE THEN "frame" ELSE "request"
    /\ UNCHANGED <<run, records, df, idx, table, pageOf, requested,
                   failedPage, clockReads, lookups, tableAtStart>>

\* Time from one start of the program to the next: longer than a run sleeps.
RunPeriod == PAGES_TO_SCRAPE * PolitenessDelay + 1

\* Mutant: the clock is read before the page loop.
utcnow_before_loop == requested[1].at

\* int(datetime.datetime.utcnow().timestamp())
utcnow == clock

\* df = pd.DataFrame(records); df['timestamp'] = now; return df
BuildFrame ==
    /\ pc = "frame"
    /\ df' = set_column(DataFrame(records), "timestamp", utcnow)
    /\ clockReads' = Append(clockReads,
                            [at |-> utcnow, requests |-> Len(requested),
                             lookups |-> Len(lookups)])
    /\ pc' = "init_meta"
    /\ UNCHANGED <<run, page, response, records, idx, table, clock, pageOf,
                   requested, failedPage, lookups, tableAtStart>>

\* for col in metadata_cols: df[col] = None; then `if not df.empty`.
InitMetadata ==
    /\ pc = "init_meta"
    /\ df' = set_columns(df, metadata_cols, None)
    /\ idx' = 1
    /\ pc' = IF Len(df.rows) = 0 THEN "save" ELSE "enrich"
    /\ UNCHANGED <<run, page, response, records, table, clock, pageOf,
                   requested, failedPage, clockReads, lookups, tableAtStart>>

\* One iteration of the enrichment loop.
Lookup ==
    /\ pc = "enrich"
    /\ \E failAt \in 0..6 :
          LET paper_id == df.rows[idx]["id"]
              result == get_paper_metadata(paper_id, Len(lookups) + 1, failAt)
          IN  /\ lookups' = Append(lookups,
                                    [id |-> paper_id,
                                     raised |-> result.raised,
                                     partial |-> result.raised
                                                 /\ DOMAIN result.data # {}])
              /\ df' = [df EXCEPT !.rows = enrich_rows(df.rows, idx, result)]
              /\ pc' = after_lookup(result.raised, idx, Len(df.rows))
    /\ idx' = idx + 1
    /\ UNCHANGED <<run, page, response, records, table, clock, pageOf,
                   requested, failedPage, clockReads, tableAtStart>>

\* save_to_sqlite(df) and the closing print.
Save ==
    /\ pc = "save"
    /\ LET res == save_to_sqlite(df, table)
       IN  /\ table' = res.table
           /\ pc' = IF res.raised THEN "crashed" ELSE "done"
    /\ UNCHANGED <<run, page, response, records, df, idx, clock, pageOf,
                   requested, failedPage, clockReads, lookups, tableAtStart>>

\* The next periodic start of the program, on the same database file.
StartRun ==
    /\ pc \in {"done", "aborted", "crashed"}
    /\ run < MaxRuns
    /\ run' = run + 1
    /\ pc' = "request"
    /\ page' = 1
    /\ response' = <<>>
    /\ records' = <<>>
    /\ df' = NoFrame
    /\ idx' = 0
    /\ pageOf' = <<>>
    /\ requested' = <<>>
    /\ failedPage' = 0
    /\ clockReads' = <<>>
    /\ lookups' = <<>>
    /\ tableAtStart' = table
    /\ clock' = run * RunPeriod
    /\ UNCHANGED table

Next ==
    \/ Request
    \/ Parse
    \/ Sleep
    \/ BuildFrame
    \/ InitMetadata
    \/ Lookup
    \/ Save
    \/ StartRun

Spec == Init /\ [][Next]_vars

\* ------------------------------------------------ the extractor alone ---
\* One page of any markup, received by the first request of a run.
InitExtract ==
    /\ run = 1
    /\ pc = "parse"
    /\ page = 1
    /\ response \in PagesOf(Cards, MaxCards)
    /\ records = <<>>
    /\ df = NoFrame
    /\ idx = 0
    /\ table = NoTable
    /\ clock = 0
    /\ pageOf = <<>>
    /\ requested = <<[page |-> 1, at |-> 0]>>
    /\ failedPage = 0
    /\ clockReads = <<>>
    /\ lookups = <<>>
    /\ tableAtStart = NoTable

NextExtract == Parse

SpecExtract == InitExtract /\ [][NextExtract]_vars

\* ------------------------------------------------------------- claims ---
NineCols == {"id", "spr", "stars", "timestamp"} \cup metadata_cols

\* The frame once the metadata columns exist.
Enriching == pc \in {"enrich", "save", "done", "crashed"}

AllSentinel(row) == \A c \in metadata_cols : row[c] = None

FromResponse(row, paper_id, n) ==
    \A c \in metadata_cols : row[c] = response_field(paper_id, n, c)

C2_LookupFailureIsolated ==
    /\ lookups # <<>> => Enriching
    /\ pc = "enrich" => idx = Len(lookups) + 1 /\ idx <= Len(df.rows)
    /\ pc \in {"save", "done", "crashed"} => Len(lookups) = Len(df.rows)
    /\ \A i \in 1..Len(lookups) :
          /\ lookups[i].id = df.rows[i]["id"]
          /\ IF lookups[i].raised
             THEN AllSentinel(df.rows[i])
             ELSE FromResponse(df.rows[i], lookups[i].id, i)

\* C2 witness: a persisted batch whose first lookup raised and whose second
\* returned.
C2_Witness ==
    /\ pc = "done"
    /\ Len(lookups) >= 2
    /\ lookups[1].raised
    /\ ~lookups[2].raised
    /\ Len(table.rows) = Len(tableAtStart.rows) + Len(lookups)

\* C3: in every row of the frame being enriched and in every row of the
\* table, the five metadata fields are all the sentinel or all those of one
\* answer given for the row's id.
C3_MetadataAllOrNothing ==
    /\ Enriching =>
          \A i \in 1..Len(df.rows) :
             \/ AllSentinel(df.rows[i])
             \/ \E n \in 1..Len(df.rows) :
                   FromResponse(df.rows[i], df.rows[i]["id"], n)
    /\ \A i \in 1..Len(table.rows) :
          \/ AllSentinel(table.rows[i])
          \/ \E n \in 1..MaxRows :
                FromResponse(table.rows[i], table.rows[i]["id"], n)

\* C3 witness: a batch at the persist step one of whose lookups raised after
\* reading some field of the answer, and another of whose lookups returned.
C3_Witness ==
    /\ pc = "save"
    /\ \E i \in 1..Len(lookups) : lookups[i].partial
    /\ \E i \in 1..Len(lookups) : ~lookups[i].raised

\* C5: a run reads the clock at most once, after all page requests and before
\* any lookup; from then on every row of the frame carries that reading, which
\* is not the time at which the row's page was requested.
C5_SingleTimestamp ==
    /\ Len(clockReads) <= 1
    /\ \A k \in 1..Len(clockReads) :
          /\ clockReads[k].requests = PAGES_TO_SCRAPE
          /\ clockReads[k].lookups = 0
    /\ (lookups # <<>> \/ pc \in {"init_meta", "save", "done", "crashed"})
          => Len(clockReads) = 1
    /\ \A i \in 1..Len(df.rows) :
          /\ df.rows[i]["timestamp"] = clockReads[1].at
          /\ df.rows[i]["timestamp"] # requested[pageOf[i]].at

\* C5 witness: a stamped batch with records of two different pages.
C5_Witness ==
    /\ pc = "init_meta"
    /\ \E i, j \in 1..Len(df.rows) : pageOf[i] # pageOf[j]

ValidCard(card) ==
    /\ ~card.chrome
    /\ card.img.col
    /\ card.img.link
    /\ startswith_paper(card.img.href)
    /\ card.img.href # <<"/paper/">>

\* C7: every record of the batch and every row of the frame and of the table
\* has a non-empty id, and the records extracted from a page are at most as
\* many as its cards that have an image column with a first hyperlink whose
\* target starts with /paper/ and is not /paper/ alone.
C7_NonEmptyIds ==
    /\ \A i \in 1..Len(records) : records[i].id # <<>>
    /\ \A i \in 1..Len(df.rows) : df.rows[i]["id"] # <<>>
    /\ \A i \in 1..Len(table.rows) : table.rows[i]["id"] # <<>>
    /\ pc = "sleep" =>
          LET got == Cardinality({i \in 1..Len(records) : pageOf[i] = page})
          IN  /\ got <= Cardinality({j \in 1..Len(response) :
                                        ValidCard(response[j])})
              /\ got <= Len(response)

\* C7 witness: a page was parsed whose only card targets /paper/ alone, and
\* no record came of it.
C7_Witness ==
    /\ pc = "sleep"
    /\ Len(response) = 1
    /\ response[1].img = Link(<<"/paper/">>)
    /\ \A i \in 1..Len(records) : pageOf[i] # page

\* C8: the listing requests of a run are those of pages 1, 2, ... in this
\* order, one each, none beyond the page count, all of them made once the
\* page loop is over, and each at least one time unit after the one before.
C8_PolitenessDelay ==
    /\ Len(requested) <= PAGES_TO_SCRAPE
    /\ \A k \in 1..Len(requested) : requested[k].page = k
    /\ pc \in {"frame", "init_meta", "enrich", "save", "done", "crashed"}
          => Len(requested) = PAGES_TO_SCRAPE
    /\ \A k \in 1..(Len(requested) - 1) :
          requested[k + 1].at >= requested[k].at + 1

\* C8 witness: the last page of a run has been requested.
C8_Witness ==
    /\ Len(requested) = PAGES_TO_SCRAPE
    /\ Len(requested) >= 2
    /\ pc = "parse"

\* C9: the frame being enriched has one row per record of the batch, in the
\* batch's order, each with exactly the nine fields; each row keeps its record's
\* id, stars per hour and total stars and the batch's timestamp; a row whose
\* lookup returned holds the answer given for its own id, and a row not yet
\* looked up holds the sentinels.
C9_EnrichmentFrame ==
    Enriching =>
        /\ Len(df.rows) = Len(records)
        /\ \A i \in 1..Len(df.rows) :
              /\ DOMAIN df.rows[i] = NineCols
              /\ df.rows[i]["id"] = records[i].id
              /\ df.rows[i]["spr"] = records[i].spr
              /\ df.rows[i]["stars"] = records[i].stars
              /\ df.rows[i]["timestamp"] = clockReads[1].at
              /\ i <= Len(lookups) /\ ~lookups[i].raised
                    => FromResponse(df.rows[i], records[i].id, i)
              /\ i > Len(lookups) => AllSentinel(df.rows[i])

\* C9 witness: a batch at the persist step with the same id in two records,
\* both looked up with success.
C9_Witness ==
    /\ pc = "save"
    /\ Len(records) >= 2
    /\ records[1].id = records[2].id
    /\ ~lookups[1].raised
    /\ ~lookups[2].raised

\* C4: when a run has gone through its persist step, the table holds the rows
\* it held when the run started, unchanged and in place, followed by as many
\* rows as the run's batch has.
C4_AppendCumulative ==
    pc \in {"done", "crashed"} =>
        /\ Len(table.rows) = Len(tableAtStart.rows) + Len(df.rows)
        /\ SubSeq(table.rows, 1, Len(tableAtStart.rows)) = tableAtStart.rows

\* C10: the frame handed to the store always has the nine columns, and no
\* append is rejected.
C10_NineColumns ==
    /\ pc = "save" => df.cols = NineCols
    /\ pc # "crashed"

WellFormed(card) ==
    /\ ~card.chrome
    /\ card.img.col
    /\ card.img.link
    /\ startswith_paper(card.img.href)
    /\ Len(card.img.href) >= 2

\* C6: a page all of whose cards have an image column whose first hyperlink
\* targets /paper/<id> with a non-empty id yields one record per card, the
\* i-th record with the id, the stars-per-hour text and the badge text of the
\* i-th card.
C6_OneRecordPerCard ==
    (pc = "sleep" /\ \A j \in 1..Len(response) : WellFormed(response[j])) =>
        /\ Len(records) = Len(response)
        /\ \A i \in 1..Len(records) :
              /\ records[i].id = Tail(response[i].img.href)
              /\ records[i].spr = card_text(response[i].spr)
              /\ records[i].stars = card_text(response[i].badge)

=============================================================================
